---- MODULE Spec2Model ----
(***************************************************************************)
(* A model of ssl_expiry_streamlit.py: the host-list preparation, the      *)
(* bounded thread pool of run_checks with its as_completed loop, the       *)
(* per-host check (fetch_cert_expiry, check_host), the DataFrame           *)
(* normalisation, the st.cache_data memo, the summary metrics and the      *)
(* days-left bucket histogram.                                             *)
(*                                                                         *)
(* Encoding.  A Python str is a sequence of one-character strings; a       *)
(* character that a TLA+ string cannot hold is named by its code point,    *)
(* "U+2028".  An                                                           *)
(* optional value (Python None, pandas NaT/NaN) is None == <<>> and a      *)
(* present value x is Some(x) == <<x>>.  A datetime is a record of its     *)
(* calendar fields; a timedelta is a record (days, seconds, microseconds)  *)
(* normalised as CPython normalises it.                                    *)
(***************************************************************************)
EXTENDS Integers, Sequences, FiniteSets, Bags, TLC

None == <<>>
Some(x) == <<x>>
Val(o) == o[1]

\* a call either returns a value or raises an exception
Returned(v) == [raised |-> FALSE, value |-> Some(v), exc |-> ""]
Raised(msg) == [raised |-> TRUE, value |-> None, exc |-> msg]

(***************************************************************************)
(* Bounds of the model.                                                    *)
(***************************************************************************)
\* lines of text the user may enter in the hosts box
MaxLines == 2
\* largest value of the "Concurrency (threads)" input that is explored
MaxWorkers == 2
\* number of form submissions explored in one session
MaxRuns == 2

(***************************************************************************)
(* str.splitlines and str.strip (lines 79 and 81).                         *)
(***************************************************************************)
\* the characters c with c.isspace(): str.strip() removes them
Whitespace ==
    {" ", "\t", "\n", "\r", "\f", "U+000B", "U+001C", "U+001D", "U+001E",
     "U+001F", "U+0085", "U+00A0", "U+1680", "U+2000", "U+2001", "U+2002",
     "U+2003", "U+2004", "U+2005", "U+2006", "U+2007", "U+2008", "U+2009",
     "U+200A", "U+2028", "U+2029", "U+202F", "U+205F", "U+3000"}
\* the line boundaries of str.splitlines()
LineBreaks ==
    {"\n", "\r", "\f", "U+000B", "U+001C", "U+001D", "U+001E", "U+0085",
     "U+2028", "U+2029"}

RECURSIVE lstrip(_)
lstrip(s) ==
    IF s # <<>> /\ Head(s) \in Whitespace THEN lstrip(Tail(s)) ELSE s

RECURSIVE rstrip(_)
rstrip(s) ==
    IF s # <<>> /\ s[Len(s)] \in Whitespace
    THEN rstrip(SubSeq(s, 1, Len(s) - 1))
    ELSE s

strip(s) == rstrip(lstrip(s))

\* cur is the line being read, acc the lines already closed by a line break.
\* A "\r\n" pair is one line break; the text after the last break is a line
\* only when it is not empty.
RECURSIVE splitlines_from(_, _, _)
splitlines_from(s, cur, acc) ==
    IF s = <<>>
    THEN IF cur = <<>> THEN acc ELSE Append(acc, cur)
    ELSE IF Head(s) \in LineBreaks
         THEN LET rest == IF Head(s) = "\r" /\ Len(s) > 1 /\ s[2] = "\n"
                          THEN Tail(Tail(s))
                          ELSE Tail(s)
              IN  splitlines_from(rest, <<>>, Append(acc, cur))
         ELSE splitlines_from(Tail(s), Append(cur, Head(s)), acc)

splitlines(s) == splitlines_from(s, <<>>, <<>>)

\* A variant that keeps blank lines (a filter that forgot "if h.strip()").
RECURSIVE strip_each(_)
strip_each(lines) ==
    IF lines = <<>> THEN <<>>
    ELSE <<strip(Head(lines))>> \o strip_each(Tail(lines))

\* A variant that drops blank lines but hands the others on untrimmed.
RECURSIVE keep_nonblank(_)
keep_nonblank(lines) ==
    IF lines = <<>> THEN <<>>
    ELSE (IF strip(Head(lines)) # <<>> THEN <<Head(lines)>> ELSE <<>>)
            \o keep_nonblank(Tail(lines))

\* [h.strip() for h in lines if h.strip()]
RECURSIVE strip_nonblank(_)
strip_nonblank(lines) ==
    IF lines = <<>> THEN <<>>
    ELSE LET h == strip(Head(lines))
         IN  (IF h # <<>> THEN <<h>> ELSE <<>>) \o strip_nonblank(Tail(lines))

\* The content of an uploaded file is a sequence of characters, each
\* standing for its UTF-8 bytes, and of bytes that no UTF-8 text holds.
InvalidBytes == {"0xFF"}

\* bytes.decode('utf-8') (line 78)
decode_utf8(content) ==
    IF \E i \in DOMAIN content : content[i] \in InvalidBytes
    THEN Raised("'utf-8' codec can't decode byte 0xff")
    ELSE Returned(content)

\* Lines 77-81: the uploaded file's content when a file was uploaded, the
\* text area's content otherwise.
prepare_hosts(hosts_text, upload) ==
    IF upload # None
    THEN strip_nonblank(splitlines(Val(decode_utf8(Val(upload)).value)))
    ELSE strip_nonblank(splitlines(hosts_text))

(***************************************************************************)
(* datetime: the proleptic Gregorian ordinal of a date, and the            *)
(* subtraction of two naive datetimes (line 26), as CPython computes them. *)
(***************************************************************************)
is_leap(y) == y % 4 = 0 /\ (y % 100 # 0 \/ y % 400 = 0)

days_in_month(y, m) ==
    IF m = 2 THEN (IF is_leap(y) THEN 29 ELSE 28)
    ELSE IF m \in {4, 6, 9, 11} THEN 30 ELSE 31

RECURSIVE days_before_month(_, _)
days_before_month(y, m) ==
    IF m <= 1 THEN 0
    ELSE days_before_month(y, m - 1) + days_in_month(y, m - 1)

days_before_year(y) ==
    LET p == y - 1 IN p * 365 + (p \div 4) - (p \div 100) + (p \div 400)

toordinal(dt) ==
    days_before_year(dt.year) + days_before_month(dt.year, dt.month) + dt.day

datetime(y, mo, d, h, mi, s, us) ==
    [year |-> y, month |-> mo, day |-> d, hour |-> h, minute |-> mi,
     second |-> s, microsecond |-> us]

\* timedelta(days, seconds, microseconds): the carries go upward and the
\* remainders are non-negative, so days is the floor of the difference.
timedelta(d, s, us) ==
    LET s2 == s + (us \div 1000000)
    IN  [days |-> d + (s2 \div 86400),
         seconds |-> s2 % 86400,
         microseconds |-> us % 1000000]

\* datetime.__sub__
datetime_sub(a, b) ==
    timedelta(toordinal(a) - toordinal(b),
              (a.second + a.minute * 60 + a.hour * 3600)
                - (b.second + b.minute * 60 + b.hour * 3600),
              a.microsecond - b.microsecond)

\* a < b, a <= b on naive datetimes
datetime_lt(a, b) ==
    LET d == datetime_sub(a, b) IN d.days < 0

datetime_le(a, b) == ~datetime_lt(b, a)

(***************************************************************************)
(* fetch_cert_expiry (lines 13-19).  The network is the environment: an    *)
(* endpoint refuses the connection, fails the TLS handshake, or presents a *)
(* certificate whose notAfter text is given by its fields                  *)
(* "%b %d %H:%M:%S %Y %Z".                                                 *)
(***************************************************************************)
\* the month names and the zone names strptime knows, in lower case as
\* _strptime.LocaleTime keeps them, letter by letter
MonthNames ==
    <<<<"j", "a", "n">>, <<"f", "e", "b">>, <<"m", "a", "r">>,
      <<"a", "p", "r">>, <<"m", "a", "y">>, <<"j", "u", "n">>,
      <<"j", "u", "l">>, <<"a", "u", "g">>, <<"s", "e", "p">>,
      <<"o", "c", "t">>, <<"n", "o", "v">>, <<"d", "e", "c">>>>

\* time.tzname of the server, taken to run in UTC
tzname == {<<"u", "t", "c">>}
ZoneNames == {<<"u", "t", "c">>, <<"g", "m", "t">>} \cup tzname

upper ==
    [a |-> "A", b |-> "B", c |-> "C", d |-> "D", e |-> "E", f |-> "F",
     g |-> "G", h |-> "H", i |-> "I", j |-> "J", k |-> "K", l |-> "L",
     m |-> "M", n |-> "N", o |-> "O", p |-> "P", q |-> "Q", r |-> "R",
     s |-> "S", t |-> "T", u |-> "U", v |-> "V", w |-> "W", x |-> "X",
     y |-> "Y", z |-> "Z"]

\* the texts a three-letter name matches under re.IGNORECASE
Spellings(name) ==
    {a \o b \o c : a \in {name[1], upper[name[1]]},
                   b \in {name[2], upper[name[2]]},
                   c \in {name[3], upper[name[3]]}}

NotAfter(b, d, H, M, S, Y, Z) ==
    [b |-> b, d |-> d, H |-> H, M |-> M, S |-> S, Y |-> Y, Z |-> Z]

\* datetime.strptime(text, "%b %d %H:%M:%S %Y %Z"): the fields are matched
\* (%b and %Z without regard to case), then datetime(...) is built from
\* them; either step raises ValueError.
strptime(t) ==
    LET months == {i \in 1..12 : t.b \in Spellings(MonthNames[i])}
    IN  IF \/ months = {}
           \/ t.d \notin 1..31
           \/ t.H \notin 0..23
           \/ t.M \notin 0..59
           \/ t.S \notin 0..61
           \/ t.Y \notin 0..9999
           \/ \A z \in ZoneNames : t.Z \notin Spellings(z)
        THEN Raised("time data does not match format")
        ELSE LET mo == CHOOSE i \in months : TRUE
             IN  IF t.Y < 1 THEN Raised("year 0 is out of range")
                 ELSE IF t.d > days_in_month(t.Y, mo)
                      THEN Raised("day is out of range for month")
                 ELSE IF t.S > 59
                      THEN Raised("second must be in 0..59")
                 ELSE Returned(datetime(t.Y, mo, t.d, t.H, t.M, t.S, 0))

Refused == [kind |-> "refused", notAfter |-> None]
Untrusted == [kind |-> "untrusted", notAfter |-> None]
Cert(t) == [kind |-> "cert", notAfter |-> Some(t)]

fetch_cert_expiry(ep) ==
    IF ep.kind = "refused" THEN Raised("[Errno 111] Connection refused")
    ELSE IF ep.kind = "untrusted"
         THEN Raised("[SSL: CERTIFICATE_VERIFY_FAILED] certificate verify failed")
    ELSE strptime(Val(ep.notAfter))

(***************************************************************************)
(* check_host (lines 22-30).  ep is what the network answers for the host  *)
(* and utcnow the clock reading taken on line 26.                          *)
(***************************************************************************)
\* A comparison that treats the boundary as healthy.
status_for_strict(days_left, warn_days) ==
    IF days_left >= warn_days THEN "OK" ELSE "WARNING"

\* A fourth status for certificates past their expiry.
status_for_expired(days_left, warn_days) ==
    IF days_left < 0 THEN "EXPIRED"
    ELSE IF days_left > warn_days THEN "OK" ELSE "WARNING"

\* line 27
status_for(days_left, warn_days) ==
    IF days_left > warn_days THEN "OK" ELSE "WARNING"

\* A difference cut to whole days toward zero.
days_until_truncating(expiry, utcnow) ==
    LET td == datetime_sub(expiry, utcnow)
    IN  IF td.days < 0 /\ (td.seconds # 0 \/ td.microseconds # 0)
        THEN td.days + 1
        ELSE td.days

\* line 26
days_until(expiry, utcnow) == datetime_sub(expiry, utcnow).days

check_host(host, port, warn_days, ep, utcnow) ==
    LET r == fetch_cert_expiry(ep)
    IN  IF r.raised
        THEN [host |-> host, port |-> port, expiry |-> None,
              days_left |-> None, status |-> "ERROR", error |-> r.exc]
        ELSE LET expiry == Val(r.value)
                 days_left == days_until(expiry, utcnow)
             IN  [host |-> host, port |-> port, expiry |-> Some(expiry),
                  days_left |-> Some(days_left),
                  status |-> status_for(days_left, warn_days), error |-> ""]

(***************************************************************************)
(* The DataFrame of run_checks (lines 47-49).  pd.to_datetime with         *)
(* errors='coerce' turns None, and every datetime outside the range of a   *)
(* nanosecond Timestamp, into NaT.                                         *)
(***************************************************************************)
\* first and last datetime (microsecond resolution) inside pandas'
\* Timestamp.min = 1677-09-21 00:12:43.145224193 and
\* Timestamp.max = 2262-04-11 23:47:16.854775807
TimestampMin == datetime(1677, 9, 21, 0, 12, 43, 145225)
TimestampMax == datetime(2262, 4, 11, 23, 47, 16, 854775)

to_datetime_coerce(expiry) ==
    IF expiry = None THEN None
    ELSE IF datetime_le(TimestampMin, Val(expiry))
            /\ datetime_le(Val(expiry), TimestampMax)
         THEN expiry
    ELSE None

\* strftime('%Y-%m-%d %H:%M:%S'), and '-' (None here) for NaT
strftime_or_dash(expiry) ==
    IF expiry = None THEN None
    ELSE LET e == Val(expiry)
         IN  Some(<<e.year, e.month, e.day, e.hour, e.minute, e.second>>)

make_row(r) ==
    LET e == to_datetime_coerce(r.expiry)
    IN  [host |-> r.host, port |-> r.port, expiry |-> e,
         days_left |-> r.days_left, status |-> r.status, error |-> r.error,
         expiry_display |-> strftime_or_dash(e)]

\* One result dict shared by the worker threads: every row shows what the
\* probe that finished last wrote.
make_dataframe_shared(results) ==
    [i \in DOMAIN results |-> make_row(results[Len(results)])]

make_dataframe(results) == [i \in DOMAIN results |-> make_row(results[i])]

(***************************************************************************)
(* Summary metrics (lines 90-93) and the bucket histogram (lines 104-111). *)
(***************************************************************************)
count_status(df, s) == Cardinality({i \in DOMAIN df : df[i].status = s})

summary_metrics(df) ==
    [total |-> Len(df), ok |-> count_status(df, "OK"),
     warnings |-> count_status(df, "WARNING"),
     errors |-> count_status(df, "ERROR")]

BucketBins == <<-999, 0, 7, 30, 90, 365, 9999>>
BucketLabels ==
    <<"Expired", "0-7 days", "8-30 days", "31-90 days", "91-365 days",
      ">365 days">>

\* pd.cut with right-closed bins: label i when bins[i] < x <= bins[i+1],
\* NaN (None) when x lies in no bin.
pd_cut(x, bins, labels) ==
    LET hit == {i \in DOMAIN labels : bins[i] < x /\ x <= bins[i + 1]}
    IN  IF hit = {} THEN None ELSE Some(labels[CHOOSE i \in hit : TRUE])

\* df['days_left'].fillna(-1)
fillna(days_left, v) == IF days_left = None THEN v ELSE Val(days_left)

\* A bucket column computed without the fillna: a missing days_left stays
\* missing.
days_left_bucket_dropna(days_left) ==
    IF days_left = None THEN None
    ELSE pd_cut(Val(days_left), BucketBins, BucketLabels)

days_left_bucket(days_left) ==
    pd_cut(fillna(days_left, -1), BucketBins, BucketLabels)

\* value_counts().sort_index(): one row per label, in label order; rows whose
\* bucket is NaN are not counted.
bucket_counts_of(df) ==
    [k \in DOMAIN BucketLabels |->
        [label |-> BucketLabels[k],
         count |-> Cardinality({i \in DOMAIN df :
                      days_left_bucket(df[i].days_left) = Some(BucketLabels[k])})]]

(***************************************************************************)
(* The state of one browser session of the app.                            *)
(***************************************************************************)
VARIABLES
    hosts_input,    \* form values delivered by the last submit (lines 64-68)
    file_upload,
    port,
    warn_days,
    workers,
    pc,             \* where the script is: "idle" (line 155), "error" (line
                    \* 84), "exception" (line 78 or 48 raised), "submit" (line
                    \* 38), "pool" (lines 39-45),
                    \* "returned" (run_checks has returned), "rendered" (the
                    \* script run ended)
    direct,         \* run_checks was called by a caller other than line 87
    hosts,          \* the list handed to run_checks
    futures,        \* one entry per executor.submit, in submission order:
                    \* host, state (queued, running, finished, yielded),
                    \* the worker thread running it, the dict returned
    total,          \* line 39
    completed,      \* line 41
    progress,       \* the values given to the st.progress bar, oldest first
    results,        \* line 36
    df,             \* the DataFrame the caller holds, None before the call
    memo,           \* st.cache_data: (hosts, port, warn_days, workers) -> df
    summary,        \* lines 90-93
    bucket_counts,  \* line 110
    runs,           \* submissions so far
    now,            \* the UTC clock
    endpoint,       \* what the network answers for each host name
    env_stable,     \* no clock or endpoint change since the pool was opened
    last,           \* record of the latest call of run_checks
    prev            \* record of the call before it

form == <<hosts_input, file_upload, port, warn_days, workers>>
pool == <<futures, total, completed, progress, results>>
shown == <<df, summary, bucket_counts>>
env == <<now, endpoint>>
hist == <<last, prev>>
vars == <<form, pc, direct, hosts, pool, shown, memo, runs, env, env_stable, hist>>

Fraction(n, d) == [num |-> n, den |-> d]

\* the multiset of the elements of a sequence
BagOfSeq(s) ==
    LET elems == {s[i] : i \in DOMAIN s}
    IN  [e \in elems |-> Cardinality({i \in DOMAIN s : s[i] = e})]

(***************************************************************************)
(* run_checks (lines 33-50).                                               *)
(***************************************************************************)
\* A memo keyed by the host list alone.
cache_key_hosts_only(hs, p, w, k) == <<hs>>

\* st.cache_data hashes every argument of the call
cache_key(hs, p, w, k) == <<hs, p, w, k>>

\* A dict keyed by host name instead of by future: a repeated host name
\* keeps one entry.
RECURSIVE dedupe(_)
dedupe(hs) ==
    IF hs = <<>> THEN <<>>
    ELSE LET rest == dedupe(SubSeq(hs, 1, Len(hs) - 1))
             h == hs[Len(hs)]
         IN  IF \E i \in DOMAIN rest : rest[i] = h THEN rest
             ELSE Append(rest, h)

submit_all_by_host(hs) ==
    LET d == dedupe(hs)
    IN  [i \in DOMAIN d |-> [host |-> d[i], state |-> "queued", worker |-> None,
                        answer |-> None, result |-> None]]

\* line 38: one future per element of hosts; the dict is keyed by the
\* future, so equal host names stay separate entries.
submit_all(hs) ==
    [i \in DOMAIN hs |-> [host |-> hs[i], state |-> "queued", worker |-> None,
                         answer |-> None, result |-> None]]

running(fs) == {i \in DOMAIN fs : fs[i].state = "running"}
queued(fs) == {i \in DOMAIN fs : fs[i].state = "queued"}

\* A pool that keeps one of its k threads in reserve.
may_start_spare(fs, k) == queued(fs) # {} /\ Cardinality(running(fs)) + 1 < k

\* ThreadPoolExecutor(max_workers=k): at most k threads take work items.
may_start(fs, k) == queued(fs) # {} /\ Cardinality(running(fs)) < k

\* Threads that take a work item whether or not they are running one.
all_workers(fs, k) == 1..k

\* the threads of the pool, numbered 1..k, that are not running a work item
idle_workers(fs, k) == (1..k) \ {Val(fs[i].worker) : i \in running(fs)}

\* The work queue is first in, first out.
next_queued(fs) == CHOOSE i \in queued(fs) : \A j \in queued(fs) : i <= j

\* A progress bar fed the share of work still open.
progress_value_remaining(c, t) == Fraction(t - c, t)

\* line 45
progress_value(c, t) == Fraction(c, t)

RunRecord(key, stable, probed, order) ==
    [key |-> key, env |-> env, stable |-> stable, probed |-> probed,
     order |-> order, rows |-> None]

\* lines 36-37 on a cache miss: the result list and the executor exist,
\* nothing has been submitted, the page of this script run has no bar yet
OpenPool(hs) ==
    /\ futures' = <<>>
    /\ total' = 0
    /\ completed' = 0
    /\ progress' = <<>>
    /\ results' = <<>>
    /\ env_stable' = TRUE
    /\ pc' = "submit"

\* the executor exists: its worker threads may take and run work items
pool_open == pc \in {"submit", "pool"}

\* the call run_checks(hs, p, w, k): st.cache_data answers from the memo
\* when it holds the arguments, and runs the body otherwise
CallRunChecks(hs, p, w, k) ==
    LET key == cache_key(hs, p, w, k)
    IN  IF key \in DOMAIN memo
        THEN /\ pc' = "returned"
             /\ df' = Some(memo[key])
             /\ last' = RunRecord(key, TRUE, FALSE, <<>>)
             /\ prev' = last
             /\ futures' = <<>>
             /\ total' = 0
             /\ completed' = 0
             /\ progress' = <<>>
             /\ results' = <<>>
             /\ UNCHANGED <<memo, env_stable>>
        ELSE /\ OpenPool(hs)
             /\ df' = None
             /\ UNCHANGED <<memo, hist>>

\* A pool that starts a thread of its own for every work item.
StartProbe_thread_per_item ==
    /\ pool_open
    /\ queued(futures) # {}
    /\ futures' = [futures EXCEPT
            ![next_queued(futures)].state = "running",
            ![next_queued(futures)].worker = Some(next_queued(futures))]
    /\ UNCHANGED <<form, pc, direct, hosts, total, completed, progress, results,
                   shown, memo, runs, env, env_stable, hist>>

\* one executor.submit of the comprehension of line 38: the next entry of
\* the futures dict
SubmitNext ==
    /\ pc = "submit"
    /\ Len(futures) < Len(submit_all(hosts))
    /\ futures' = Append(futures, submit_all(hosts)[Len(futures) + 1])
    /\ UNCHANGED <<form, pc, direct, hosts, total, completed, progress, results,
                   shown, memo, runs, env, env_stable, hist>>

\* lines 39-41, the comprehension done: total, the progress bar at 0, the
\* counter
BeginLoop ==
    /\ pc = "submit"
    /\ Len(futures) = Len(submit_all(hosts))
    /\ total' = Len(futures)
    /\ progress' = <<Fraction(0, 1)>>
    /\ completed' = 0
    /\ pc' = "pool"
    /\ UNCHANGED <<form, direct, hosts, futures, results, shown, memo, runs,
                   env, env_stable, hist>>

\* a worker thread takes the oldest queued work item
StartProbe ==
    /\ pool_open
    /\ may_start(futures, workers)
    /\ \E w \in idle_workers(futures, workers) :
          futures' = [futures EXCEPT ![next_queued(futures)].state = "running",
                                     ![next_queued(futures)].worker = Some(w)]
    /\ UNCHANGED <<form, pc, direct, hosts, total, completed, progress, results,
                   shown, memo, runs, env, env_stable, hist>>

\* A worker that appends its own outcome to the shared list and counts it.
FinishProbe_appending(i, ep) ==
    /\ pool_open
    /\ i \in running(futures)
    /\ futures' = [futures EXCEPT
            ![i].state = "finished",
            ![i].worker = None,
            ![i].result = Some(check_host(futures[i].host, port, warn_days,
                                          ep, now))]
    /\ results' = Append(results, Val(futures'[i].result))
    /\ completed' = completed + 1
    /\ UNCHANGED <<form, pc, direct, hosts, total, progress,
                   shown, memo, runs, env, env_stable, hist>>

\* lines 16-18 in a worker thread: the connection attempt of probe i is
\* answered by what the host's endpoint is at this moment; the probe goes on
\* to lines 19-30 later
ReceiveAnswer(i) ==
    /\ pool_open
    /\ i \in running(futures)
    /\ futures[i].answer = None
    /\ futures' = [futures EXCEPT
            ![i].answer = Some(endpoint[futures[i].host])]
    /\ UNCHANGED <<form, pc, direct, hosts, total, completed, progress, results,
                   shown, memo, runs, env, env_stable, hist>>

\* check_host returns in its worker thread: ep is what the network answered
\* at lines 16-18, the clock is read now, at line 26
FinishProbe(i, ep) ==
    /\ pool_open
    /\ i \in running(futures)
    /\ futures' = [futures EXCEPT
            ![i].state = "finished",
            ![i].worker = None,
            ![i].result = Some(check_host(futures[i].host, port, warn_days,
                                          ep, now))]
    /\ UNCHANGED <<form, pc, direct, hosts, total, completed, progress, results,
                   shown, memo, runs, env, env_stable, hist>>

\* one iteration of the as_completed loop: lines 42-45
Collect(i) ==
    /\ pc = "pool"
    /\ i \in DOMAIN futures
    /\ futures[i].state = "finished"
    /\ futures' = [futures EXCEPT ![i].state = "yielded"]
    /\ results' = Append(results, Val(futures[i].result))
    /\ completed' = completed + 1
    /\ progress' = Append(progress, progress_value(completed', total))
    /\ UNCHANGED <<form, pc, direct, hosts, total, shown, memo, runs, env,
                   env_stable, hist>>

\* A loop left at the first outcome.
as_completed_first(fs) == \E i \in DOMAIN fs : fs[i].state = "yielded"

\* as_completed has yielded every future (line 42), so the shutdown(wait=True)
\* of the with block's exit (line 37) finds every worker idle
as_completed_exhausted(fs) == \A i \in DOMAIN fs : fs[i].state = "yielded"

\* the loop has ended: the with block is left, lines 47-50 build the
\* DataFrame, st.cache_data stores it and run_checks returns; the locals
\* are gone, the progress bar stays on the page
ReturnChecks ==
    /\ pc = "pool"
    /\ as_completed_exhausted(futures)
    /\ IF results = <<>>
       THEN \* pd.DataFrame([]) has no column: df['expiry'] of line 48
            \* raises KeyError, nothing is returned and nothing is stored
            /\ pc' = "exception"
            /\ UNCHANGED <<df, memo, hist>>
       ELSE LET d == make_dataframe(results)
                key == cache_key(hosts, port, warn_days, workers)
            IN  /\ df' = Some(d)
                /\ memo' = [k \in DOMAIN memo \cup {key} |->
                               IF k = key THEN d ELSE memo[k]]
                /\ last' = RunRecord(key, env_stable, TRUE,
                                     [i \in DOMAIN results |-> results[i].host])
                /\ prev' = last
                /\ pc' = "returned"
    /\ futures' = <<>>
    /\ results' = <<>>
    /\ total' = 0
    /\ completed' = 0
    /\ UNCHANGED <<form, direct, hosts, progress, summary, bucket_counts, runs,
                   env, env_stable>>

(***************************************************************************)
(* The script (lines 75-111).                                              *)
(***************************************************************************)
\* A script that calls run_checks whatever the list holds.
not_hosts_never(hs) == FALSE

\* line 83: "if not hosts"
not_hosts(hs) == hs = <<>>

\* line 78 raises UnicodeDecodeError for this upload
decode_fails(upload) == upload # None /\ decode_utf8(Val(upload)).raised

\* The user presses the submit button with the form filled in: lines 75-87
\* up to the call of run_checks, or the error of line 84, or the exception
\* of line 78, which ends the script run.
Submit(text, upload, p, w, k) ==
    /\ runs' = runs + 1
    /\ hosts_input' = text
    /\ file_upload' = upload
    /\ port' = p
    /\ warn_days' = w
    /\ workers' = k
    /\ hosts' = IF decode_fails(upload) THEN <<>>
                ELSE prepare_hosts(text, upload)
    /\ summary' = None
    /\ bucket_counts' = None
    /\ direct' = FALSE
    /\ IF decode_fails(upload) \/ not_hosts(hosts')
       THEN /\ pc' = IF decode_fails(upload) THEN "exception" ELSE "error"
            /\ df' = None
            /\ futures' = <<>>
            /\ total' = 0
            /\ completed' = 0
            /\ progress' = <<>>
            /\ results' = <<>>
            /\ UNCHANGED <<memo, env_stable, hist>>
       ELSE CallRunChecks(hosts', p, w, k)
    /\ UNCHANGED env

\* run_checks called with a list that did not pass through lines 77-81
DirectCall(hs, p, w, k) ==
    /\ pc = "idle"
    /\ runs' = runs + 1
    /\ port' = p
    /\ warn_days' = w
    /\ workers' = k
    /\ hosts' = hs
    /\ direct' = TRUE
    /\ CallRunChecks(hs, p, w, k)
    /\ UNCHANGED <<hosts_input, file_upload, summary, bucket_counts, env>>

with_bucket(d) ==
    [i \in DOMAIN d |->
        [host |-> d[i].host, port |-> d[i].port, expiry |-> d[i].expiry,
         days_left |-> d[i].days_left, status |-> d[i].status,
         error |-> d[i].error, expiry_display |-> d[i].expiry_display,
         days_left_bucket |-> days_left_bucket(d[i].days_left)]]

\* lines 89-111: the summary metrics, the bucket column and its counts
Render ==
    /\ pc = "returned"
    /\ ~direct
    /\ LET d == with_bucket(Val(df))
       IN  /\ df' = Some(d)
           /\ summary' = Some(summary_metrics(d))
           /\ bucket_counts' = Some(bucket_counts_of(d))
           /\ last' = [last EXCEPT !.rows = Some(BagOfSeq(
                  [i \in DOMAIN d |->
                      <<d[i].host, d[i].status, d[i].days_left_bucket>>]))]
    /\ pc' = "rendered"
    /\ UNCHANGED <<form, direct, hosts, pool, memo, runs, env, env_stable, prev>>

\* The script runs again without a submission (a click on a download
\* button of lines 148/150, "Rerun" of the app menu): submitted is False,
\* line 155 shows the hint and the page holds nothing else.
Rerun ==
    /\ pc \in {"error", "exception", "rendered"}
    /\ pc' = "idle"
    /\ direct' = FALSE
    /\ hosts' = <<>>
    /\ progress' = <<>>
    /\ df' = None
    /\ summary' = None
    /\ bucket_counts' = None
    /\ UNCHANGED <<form, futures, total, completed, results, memo, runs, env,
                   env_stable, hist>>

(***************************************************************************)
(* The environment's steps.                                                *)
(***************************************************************************)
Clock0 == datetime(2026, 10, 29, 12, 0, 0, 0)
Clock1 == datetime(2026, 10, 29, 12, 0, 0, 500000)
ClockReadings == {Clock0, Clock1}

Tick ==
    /\ \E t \in ClockReadings : datetime_lt(now, t) /\ now' = t
    /\ env_stable' = FALSE
    /\ UNCHANGED <<form, pc, direct, hosts, pool, shown, memo, runs, endpoint, hist>>

EndpointChange(h, e) ==
    /\ h \in DOMAIN endpoint
    /\ endpoint[h] # e
    /\ endpoint' = [endpoint EXCEPT ![h] = e]
    /\ env_stable' = FALSE
    /\ UNCHANGED <<form, pc, direct, hosts, pool, shown, memo, runs, now, hist>>

\* "Clear cache" of the app menu, or a restart of the server process
ClearCache ==
    /\ DOMAIN memo # {}
    /\ memo' = <<>>
    /\ UNCHANGED <<form, pc, direct, hosts, pool, shown, runs, env, env_stable, hist>>

(***************************************************************************)
(* Inputs explored.                                                        *)
(***************************************************************************)
\* a blank line, a host between white space, a host
RawLines == {<<" ">>, <<" ", "a", "U+00A0">>, <<"b">>}

RECURSIVE JoinLines(_)
JoinLines(ls) ==
    IF ls = <<>> THEN <<>>
    ELSE IF Len(ls) = 1 THEN ls[1]
    ELSE ls[1] \o <<"\n">> \o JoinLines(Tail(ls))

SeqsUpTo(S, n) == UNION {[1..m -> S] : m \in 0..n}

\* up to MaxLines lines ended by "\n", and one text whose lines a form
\* feed separates
TextInputs ==
    {JoinLines(ls) : ls \in SeqsUpTo(RawLines, MaxLines)}
    \cup {<<"b", "\f", " ", "a">>}

\* no file, a file of one line, a file that is not UTF-8
UploadInputs ==
    {None} \cup {Some(t) : t \in RawLines} \cup {Some(<<"a", "0xFF">>)}

HostNames == {<<"a">>, <<"b">>}
PortInputs == {443}
WarnInputs == {15}

\* certificates given by their distance from Clock0 in days
CertSoon == Cert(NotAfter("Nov", 3, 12, 0, 0, 2026, "GMT"))
CertLater == Cert(NotAfter("May", 17, 12, 0, 0, 2027, "GMT"))
Endpoints == {Refused, CertSoon, CertLater}

NoRun == [key |-> <<>>, env |-> <<>>, stable |-> FALSE, probed |-> FALSE,
          order |-> <<>>, rows |-> None]

\* The page as first served (line 155): the form holds its defaults.
InitOver(eps) ==
    /\ hosts_input = <<"e","x","a","m","p","l","e",".","c","o","m">>
    /\ file_upload = None
    /\ port = 443
    /\ warn_days = 15
    /\ workers = 10
    /\ pc = "idle"
    /\ direct = FALSE
    /\ hosts = <<>>
    /\ futures = <<>>
    /\ total = 0
    /\ completed = 0
    /\ progress = <<>>
    /\ results = <<>>
    /\ df = None
    /\ memo = <<>>
    /\ summary = None
    /\ bucket_counts = None
    /\ runs = 0
    /\ now = Clock0
    /\ endpoint \in [HostNames -> eps]
    /\ env_stable = TRUE
    /\ last = NoRun
    /\ prev = NoRun

(***************************************************************************)
(* Spec: one submission of the form.  The network may answer anything for  *)
(* every probe; the endpoint variable is not read.                         *)
(***************************************************************************)
Init == InitOver({Refused})

FirstSubmit ==
    /\ pc = "idle"
    /\ runs = 0
    /\ \E text \in TextInputs, up \in UploadInputs,
          p \in PortInputs, w \in WarnInputs, k \in 1..MaxWorkers :
            Submit(text, up, p, w, k)

AnyAnswer == \E i \in DOMAIN futures, ep \in Endpoints : FinishProbe(i, ep)

Next ==
    \/ FirstSubmit
    \/ SubmitNext
    \/ BeginLoop
    \/ StartProbe
    \/ AnyAnswer
    \/ \E i \in DOMAIN futures : Collect(i)
    \/ ReturnChecks
    \/ Render
    \/ Rerun
    \/ Tick

Spec == Init /\ [][Next]_vars

(***************************************************************************)
(* SpecLive: one submission of one to MaxLines hosts to a pool of one to   *)
(* MaxWorkers threads, with the scheduling the code relies on.  An idle    *)
(* worker thread of the executor takes the next work item; a probe returns *)
(* or raises (the socket timeout of line 16 cuts off a connection that     *)
(* hangs); the collecting thread is resumed when a future is done, and     *)
(* leaves the with block when the loop has ended.                          *)
(***************************************************************************)
LiveTexts == {JoinLines([i \in 1..n |-> <<"a">>]) : n \in 1..MaxLines}
LiveEndpoints == {Refused, CertSoon}

LiveSubmit ==
    /\ pc = "idle"
    /\ runs = 0
    /\ \E text \in LiveTexts, p \in PortInputs, w \in WarnInputs,
          k \in 1..MaxWorkers : Submit(text, None, p, w, k)

LiveAnswer ==
    \E i \in DOMAIN futures, ep \in LiveEndpoints : FinishProbe(i, ep)

CollectAny == \E i \in DOMAIN futures : Collect(i)

NextLive ==
    \/ LiveSubmit
    \/ SubmitNext
    \/ BeginLoop
    \/ StartProbe
    \/ LiveAnswer
    \/ CollectAny
    \/ ReturnChecks
    \/ Render
    \/ Rerun
    \/ Tick

SpecLive ==
    /\ Init
    /\ [][NextLive]_vars
    /\ WF_vars(SubmitNext)
    /\ WF_vars(BeginLoop)
    /\ WF_vars(StartProbe)
    /\ WF_vars(LiveAnswer)
    /\ WF_vars(CollectAny)
    /\ WF_vars(ReturnChecks)

(***************************************************************************)
(* SpecProbe: one submission of one or two hosts, with certificates on     *)
(* both sides of every threshold of check_host and of the histogram.       *)
(***************************************************************************)
ProbeTexts == {<<"a">>, <<"a", "\n", "b">>}
WarnProbe == {0, 15}

\* notAfter at Clock0 plus 0, 1, 8, 16, 31, 91, 366 and 10000 days:
\* days_left is that number at Clock0 and one less at Clock1
ProbeCerts ==
    {Cert(NotAfter("Oct", 29, 12, 0, 0, 2026, "GMT")),
     Cert(NotAfter("Oct", 30, 12, 0, 0, 2026, "GMT")),
     Cert(NotAfter("Nov", 6, 12, 0, 0, 2026, "GMT")),
     Cert(NotAfter("Nov", 14, 12, 0, 0, 2026, "GMT")),
     Cert(NotAfter("Nov", 29, 12, 0, 0, 2026, "GMT")),
     Cert(NotAfter("Jan", 28, 12, 0, 0, 2027, "GMT")),
     Cert(NotAfter("Oct", 30, 12, 0, 0, 2027, "GMT")),
     Cert(NotAfter("Mar", 16, 12, 0, 0, 2054, "GMT"))}

\* a certificate that never expires (RFC 5280, 99991231235959Z)
CertForever == Cert(NotAfter("Dec", 31, 23, 59, 59, 9999, "GMT"))
\* a notAfter text that strptime rejects
CertBadText == Cert(NotAfter("Feb", 30, 12, 0, 0, 2027, "GMT"))

ProbeEndpoints ==
    ProbeCerts \cup {CertForever, CertBadText, Refused, Untrusted}

ProbeSubmit ==
    /\ pc = "idle"
    /\ runs = 0
    /\ \E text \in ProbeTexts, p \in PortInputs, w \in WarnProbe,
          k \in 1..MaxWorkers : Submit(text, None, p, w, k)

ProbeAnswer ==
    \E i \in DOMAIN futures, ep \in ProbeEndpoints : FinishProbe(i, ep)

NextProbe ==
    \/ ProbeSubmit
    \/ SubmitNext
    \/ BeginLoop
    \/ StartProbe
    \/ ProbeAnswer
    \/ \E i \in DOMAIN futures : Collect(i)
    \/ ReturnChecks
    \/ Render
    \/ Rerun
    \/ Tick

SpecProbe == Init /\ [][NextProbe]_vars

(***************************************************************************)
(* SpecCall: run_checks is also called directly, with any list of entries, *)
(* blank ones included.                                                    *)
(***************************************************************************)
CallEntries == {<<>>, <<" ">>, <<"a">>}
CallLists == SeqsUpTo(CallEntries, MaxLines)

AnyDirectCall ==
    /\ runs = 0
    /\ \E hs \in CallLists, p \in PortInputs, w \in WarnInputs,
          k \in 1..MaxWorkers : DirectCall(hs, p, w, k)

NextCall ==
    \/ FirstSubmit
    \/ AnyDirectCall
    \/ SubmitNext
    \/ BeginLoop
    \/ StartProbe
    \/ AnyAnswer
    \/ \E i \in DOMAIN futures : Collect(i)
    \/ ReturnChecks
    \/ Render
    \/ Rerun
    \/ Tick

SpecCall == Init /\ [][NextCall]_vars

(***************************************************************************)
(* SpecSession: a session of several submissions of the same two hosts.    *)
(* The network answers a probe's connection attempt with what the         *)
(* endpoint variable holds at that moment; the probe reads the clock and   *)
(* returns in a later step.  The clock moves and the endpoints change at   *)
(* any time, also between the answer and the return of one probe; the      *)
(* cache may be cleared at any time, also while a batch runs.              *)
(***************************************************************************)
SessionTexts == {<<"a", "\n", "b">>}
\* both probes of a batch may run at once
SessionWorkers == {2}
\* 16 days after Clock0: days_left is 16 at Clock0 and 15 at Clock1
CertEdge == Cert(NotAfter("Nov", 14, 12, 0, 0, 2026, "GMT"))
SessionEndpoints == {Refused, CertEdge}

InitSession == InitOver(SessionEndpoints)

SessionSubmit ==
    /\ pc \in {"idle", "error", "exception", "rendered"}
    /\ runs < MaxRuns
    /\ \E text \in SessionTexts, p \in PortInputs, w \in WarnInputs,
          k \in SessionWorkers : Submit(text, None, p, w, k)

\* a probe whose connection attempt was answered returns with that answer
EndpointAnswer ==
    \E i \in DOMAIN futures :
        /\ futures[i].answer # None
        /\ FinishProbe(i, Val(futures[i].answer))

EndpointReply == \E i \in DOMAIN futures : ReceiveAnswer(i)

SessionTick == Tick

SessionEndpointChange ==
    \E h \in HostNames, e \in SessionEndpoints : EndpointChange(h, e)

NextSession ==
    \/ SessionSubmit
    \/ SubmitNext
    \/ BeginLoop
    \/ StartProbe
    \/ EndpointReply
    \/ EndpointAnswer
    \/ \E i \in DOMAIN futures : Collect(i)
    \/ ReturnChecks
    \/ Render
    \/ Rerun
    \/ SessionTick
    \/ SessionEndpointChange
    \/ ClearCache

SpecSession == InitSession /\ [][NextSession]_vars

(***************************************************************************)
(* SpecCache: a session of several submissions that differ from one        *)
(* another in exactly one argument of run_checks or in none, while the     *)
(* clock and the endpoints change between the script runs.  The memo is    *)
(* not cleared.                                                            *)
(***************************************************************************)
CallArgs(text, p, w, k) == [text |-> text, port |-> p, warn_days |-> w, workers |-> k]

CacheArgs ==
    {CallArgs(<<"a">>, 443, 15, 1),
     CallArgs(<<"b">>, 443, 15, 1),
     CallArgs(<<"a">>, 8443, 15, 1),
     CallArgs(<<"a">>, 443, 0, 1),
     CallArgs(<<"a">>, 443, 15, 2)}

CacheSubmit ==
    /\ pc \in {"idle", "error", "exception", "rendered"}
    /\ runs < MaxRuns
    /\ \E a \in CacheArgs :
          Submit(a.text, None, a.port, a.warn_days, a.workers)

NextCache ==
    \/ CacheSubmit
    \/ SubmitNext
    \/ BeginLoop
    \/ StartProbe
    \/ EndpointReply
    \/ EndpointAnswer
    \/ CollectAny
    \/ ReturnChecks
    \/ Render
    \/ Rerun
    \/ SessionTick
    \/ SessionEndpointChange

SpecCache == InitSession /\ [][NextCache]_vars

(***************************************************************************)
(* Properties.                                                             *)
(***************************************************************************)
Rows == IF df = None THEN <<>> ELSE Val(df)
Finished == pc \in {"returned", "rendered"}

\* every outcome the state holds: in a future, in results, in the DataFrame
Outcomes ==
    {Val(futures[i].result) : i \in {j \in DOMAIN futures : futures[j].result # None}}
    \cup {results[i] : i \in DOMAIN results}

RECURSIVE SumCounts(_)
SumCounts(bc) ==
    IF bc = <<>> THEN 0 ELSE Head(bc).count + SumCounts(Tail(bc))

(* C3: for every outcome of a probe that succeeded, status is WARNING      *)
(* exactly when days_left <= warn_days (the boundary included, negative    *)
(* days_left included) and OK exactly when days_left > warn_days.          *)
C3_WarningIffWithinThreshold ==
    \A r \in Outcomes \cup {Rows[i] : i \in DOMAIN Rows} :
        r.days_left # None =>
            /\ r.status = "WARNING" <=> Val(r.days_left) <= warn_days
            /\ r.status = "OK" <=> Val(r.days_left) > warn_days

\* a batch with one outcome on the boundary and one already expired
C3_Witness ==
    /\ pc = "rendered"
    /\ \E i, j \in DOMAIN Rows :
        /\ Rows[i].days_left = Some(warn_days)
        /\ Rows[i].status = "WARNING"
        /\ Rows[j].days_left # None
        /\ Val(Rows[j].days_left) < 0
        /\ Rows[j].status = "WARNING"

(* C4: in the DataFrame run_checks returns, status is ERROR exactly when   *)
(* expiry is absent.                                                       *)
C4_ErrorIffExpiryAbsent ==
    Finished =>
        \A i \in DOMAIN Rows : Rows[i].status = "ERROR" <=> Rows[i].expiry = None

\* the bucket the histogram's labels promise for a days_left value
ClaimedBucket(d) ==
    IF d <= 0 THEN "Expired"
    ELSE IF d <= 7 THEN "0-7 days"
    ELSE IF d <= 30 THEN "8-30 days"
    ELSE IF d <= 90 THEN "31-90 days"
    ELSE IF d <= 365 THEN "91-365 days"
    ELSE ">365 days"

(* C7: every outcome with a defined days_left is counted in exactly the    *)
(* bucket whose range contains it: Expired for <= 0, '0-7 days' for 1..7,  *)
(* '8-30 days' for 8..30, '31-90 days' for 31..90, '91-365 days' for       *)
(* 91..365 and '>365 days' for everything above 365.                       *)
C7_BucketOfDaysLeft ==
    pc = "rendered" =>
        \A i \in DOMAIN Rows :
            Rows[i].days_left # None =>
                Rows[i].days_left_bucket = Some(ClaimedBucket(Val(Rows[i].days_left)))

(* C8: the six bucket counts sum to the number of outcomes with a defined  *)
(* days_left, or to the number of all outcomes.                            *)
C8_BucketCountsSum ==
    pc = "rendered" =>
        LET n == SumCounts(Val(bucket_counts))
        IN  \/ n = Cardinality({i \in DOMAIN Rows : Rows[i].days_left # None})
            \/ n = Len(Rows)

\* the lines of the text the form delivered
InputLines ==
    splitlines(IF file_upload # None THEN Val(file_upload) ELSE hosts_input)

HostsOf(rs) == [i \in DOMAIN rs |-> rs[i].host]

(* C1: every dispatched target yields exactly one outcome.  The futures    *)
(* are submitted one per host, in the order of the list.  A failed probe   *)
(* is an ERROR outcome of its own host; total is the number of hosts       *)
(* submitted; the outcomes collected so far are those of the futures       *)
(* already yielded; when the batch has finished the multiset of outcome    *)
(* hosts is the multiset of submitted hosts.                               *)
C1_OneOutcomePerTarget ==
    /\ pc = "submit" =>
        /\ Len(futures) <= Len(hosts)
        /\ HostsOf(futures) = SubSeq(hosts, 1, Len(futures))
        /\ results = <<>>
    /\ pc = "pool" =>
        /\ total = Len(hosts)
        /\ HostsOf(futures) = hosts
    /\ pool_open =>
        /\ \A i \in DOMAIN futures :
              futures[i].result # None =>
                  Val(futures[i].result).host = futures[i].host
        /\ LET yielded == SelectSeq(futures, LAMBDA f : f.state = "yielded")
           IN  BagOfSeq(results) =
                  BagOfSeq([i \in DOMAIN yielded |-> Val(yielded[i].result)])
        /\ completed = Len(results)
    /\ Finished => BagOfSeq(HostsOf(Rows)) = BagOfSeq(hosts)

\* a finished batch of two hosts in which one probe failed and one did not
C1_Witness ==
    /\ pc = "returned"
    /\ \E i, j \in DOMAIN Rows :
        /\ Rows[i].status = "ERROR"
        /\ Rows[j].status # "ERROR"
        /\ Rows[i].host # Rows[j].host

(* C2 as stated: the number of outcomes is the number of distinct,         *)
(* trimmed, non-blank input hosts.                                         *)
C2_DistinctHostCount ==
    Finished =>
        Len(Rows) = Cardinality({strip(InputLines[i]) : i \in DOMAIN InputLines}
                                \ {<<>>})

(* C2 as amended: the number of outcomes is the number of non-blank input  *)
(* entries, a host name counted as often as it was entered.                *)
C2_NonBlankEntryCount ==
    Finished =>
        Len(Rows) = Cardinality({i \in DOMAIN InputLines :
                                    strip(InputLines[i]) # <<>>})

\* a finished batch whose input named one host twice
C2_Witness ==
    /\ Finished
    /\ Len(InputLines) = 2
    /\ Len(Rows) = 2
    /\ Cardinality({Rows[i].host : i \in DOMAIN Rows}) = 1

(* C5: at most `workers` probes are running at any time; the others wait   *)
(* queued, in submission order, and every target still gets its outcome.   *)
C5_AtMostWorkersActive ==
    /\ Cardinality(running(futures)) <= workers
    /\ \A i, j \in DOMAIN futures :
          (i < j /\ futures[i].state = "queued") => futures[j].state = "queued"
    /\ Finished => Len(Rows) = Len(hosts)

\* every worker busy and a target waiting
C5_Witness ==
    /\ pc = "pool"
    /\ Cardinality(running(futures)) = workers
    /\ queued(futures) # {}

FracLe(a, b) == a.num * b.den <= b.num * a.den

(* C6: the progress values never decrease, lie in [0,1], and the value 1.0 *)
(* is emitted exactly when the last outcome has been appended, as the last *)
(* value of the batch.                                                     *)
C6_ProgressMonotone ==
    /\ \A i \in DOMAIN progress :
          /\ progress[i].den > 0
          /\ 0 <= progress[i].num
          /\ progress[i].num <= progress[i].den
    /\ \A i \in DOMAIN progress :
          i < Len(progress) => FracLe(progress[i], progress[i + 1])
    /\ pc = "pool" =>
          /\ Len(progress) = Len(results) + 1
          /\ (progress[Len(progress)].num = progress[Len(progress)].den)
                <=> Len(results) = total
    /\ (Finished /\ last.probed) =>
          progress[Len(progress)].num = progress[Len(progress)].den

\* the loop has ended on a batch of two: 0, 1/2 and 1.0 were emitted
C6_Witness ==
    /\ pc = "pool"
    /\ Len(progress) = 3
    /\ Len(results) = total
    /\ progress[3] = Fraction(2, 2)

IsBlank(h) == strip(h) = <<>>

(* C10 as stated: no probe is ever dispatched for a blank or               *)
(* whitespace-only entry, whoever calls run_checks.                        *)
C10_NoBlankProbe ==
    \A i \in DOMAIN futures : ~IsBlank(futures[i].host)

(* C10 as amended: the entries the script hands to run_checks are trimmed  *)
(* and non-blank, so the app dispatches no probe for a blank entry;        *)
(* run_checks itself drops nothing: it dispatches one probe for every      *)
(* entry it is given and returns one outcome for each; given the empty     *)
(* list it dispatches nothing and returns nothing (line 48 raises).        *)
C10_BlanksDroppedBeforeCall ==
    /\ ~direct => \A i \in DOMAIN hosts :
                     hosts[i] = strip(hosts[i]) /\ ~IsBlank(hosts[i])
    /\ pc = "pool" => HostsOf(futures) = hosts
    /\ Finished => BagOfSeq(HostsOf(Rows)) = BagOfSeq(hosts)
    /\ Finished => hosts # <<>>

\* a direct call with a blank entry has returned an outcome for it
C10_Witness ==
    /\ direct
    /\ pc = "returned"
    /\ \E i \in DOMAIN Rows : IsBlank(Rows[i].host)

\* the latest two calls of run_checks both ran the probes, with the same
\* arguments, under one and the same clock reading and endpoint state
SameBatchTwice ==
    /\ pc = "rendered"
    /\ prev.probed /\ last.probed
    /\ prev.rows # None
    /\ prev.key = last.key
    /\ prev.stable /\ last.stable
    /\ prev.env = last.env

SecondOfDay(dt) == dt.hour * 3600 + dt.minute * 60 + dt.second

\* floor((e - t) / one day): the difference of the calendar days, less one
\* when e's time of day is earlier than t's
FloorDays(e, t) ==
    LET D == toordinal(e) - toordinal(t)
        S == SecondOfDay(e) - SecondOfDay(t)
        U == e.microsecond - t.microsecond
    IN  IF S < 0 \/ (S = 0 /\ U < 0) THEN D - 1 ELSE D

\* the expiry of CertEdge
EdgeExpiry == datetime(2026, 11, 14, 12, 0, 0, 0)

\* the status and the bucket the rules give host h when its endpoint is e,
\* the clock reads t and the threshold is w
ExpectedOutcome(h, e, t, w) ==
    IF e = Refused THEN <<h, "ERROR", Some("Expired")>>
    ELSE LET d == FloorDays(EdgeExpiry, t)
         IN  <<h, IF d <= w THEN "WARNING" ELSE "OK", Some(ClaimedBucket(d))>>

(* C9: two runs of the batch with the same inputs, the same certificate    *)
(* state and the same clock reading give every host the same status and    *)
(* the same bucket, whatever the completion orders: the two results are    *)
(* equal as multisets of (host, status, bucket).  The outcomes of a run    *)
(* during which neither the certificates nor the clock changed are those   *)
(* the inputs, the certificate state and the clock reading determine: one  *)
(* per host, whichever worker ran which probe and in whatever order the    *)
(* probes were answered, returned and were collected.                      *)
C9_SameInputsSameOutcomes ==
    /\ SameBatchTwice => prev.rows = last.rows
    /\ (pc = "rendered" /\ last.probed /\ last.stable) =>
          last.rows = Some(BagOfSeq(
              [i \in DOMAIN last.key[1] |->
                  ExpectedOutcome(last.key[1][i], last.env[2][last.key[1][i]],
                                  last.env[1], last.key[3])]))

\* two such runs whose probes completed in different orders, one host
\* failing and one not
C9_Witness ==
    /\ SameBatchTwice
    /\ prev.order # last.order
    /\ \E i, j \in DOMAIN Rows :
          Rows[i].status = "ERROR" /\ Rows[j].status # "ERROR"


(* C11: a submission whose host list is empty after trimming and dropping  *)
(* blank lines ends in the error of line 84, and only such a submission    *)
(* does; run_checks is not called for it: no pool is opened, no future is  *)
(* submitted, no progress bar is made, nothing is returned or memoised.    *)
C11_EmptyListRejected ==
    /\ (runs > 0 /\ pc \notin {"idle", "exception"}) =>
          (pc = "error" <=> \A i \in DOMAIN InputLines : IsBlank(InputLines[i]))
    /\ pc = "error" =>
          /\ ~decode_fails(file_upload)
          /\ hosts = <<>>
          /\ futures = <<>>
          /\ progress = <<>>
          /\ results = <<>>
          /\ df = None
          /\ DOMAIN memo = {}
          /\ last = NoRun
    /\ pc \in {"submit", "pool", "returned", "rendered"} => hosts # <<>>

\* two lines of white space were submitted and rejected
C11_Witness ==
    /\ pc = "error"
    /\ Len(InputLines) = 2
    /\ \A i \in DOMAIN InputLines : InputLines[i] # <<>>

\* the futures as_completed has yielded, in submission order
Yielded == SelectSeq(futures, LAMBDA f : f.state = "yielded")

\* one iteration of the as_completed loop took future i
CollectStep(i) ==
    /\ futures[i].state = "finished"
    /\ futures' = [futures EXCEPT ![i].state = "yielded"]
    /\ results' = Append(results, Val(futures[i].result))
    /\ completed' = completed + 1

(* C12: while the pool is open the result list and the completion counter  *)
(* change only in an iteration of the as_completed loop, which appends the *)
(* outcome of one finished future and adds one to the counter; a worker    *)
(* starting or finishing a probe changes neither.  So after every          *)
(* iteration completed = len(results) = number of futures yielded, with    *)
(* exactly their outcomes, and when all are yielded completed = total.     *)
C12_SingleCollector ==
    /\ [](pc = "pool" =>
            /\ completed = Len(results)
            /\ Len(results) = Len(Yielded)
            /\ BagOfSeq(results) =
                  BagOfSeq([i \in DOMAIN Yielded |-> Val(Yielded[i].result)])
            /\ as_completed_exhausted(futures) => completed = total)
    /\ [](pc = "submit" => results = <<>> /\ completed = 0)
    /\ [][(pool_open /\ pool_open'
            /\ <<results, completed>>' # <<results, completed>>)
              => pc = "pool" /\ \E i \in DOMAIN futures : CollectStep(i)]_vars

\* the second probe submitted was collected while the first, finished, waits
C12_Witness ==
    /\ pc = "pool"
    /\ Len(futures) = 2
    /\ futures[1].state = "finished"
    /\ futures[2].state = "yielded"
    /\ completed = 1

\* the last progress value emitted
LastProgress == progress[Len(progress)]

(* C13: run_checks returns only from a pool in which no probe is queued or *)
(* running and every future has been yielded, after the progress value 1.0 *)
(* was emitted, with one row per host; once it has returned no future of   *)
(* the batch is left.                                                      *)
C13_ReturnAfterAllWorkers ==
    /\ [](~pool_open => futures = <<>>)
    /\ [][(pool_open /\ ~pool_open') =>
            /\ pc = "pool"
            /\ pc' = "returned"
            /\ queued(futures) = {}
            /\ running(futures) = {}
            /\ as_completed_exhausted(futures)
            /\ Len(results) = Len(hosts)
            /\ LastProgress = Fraction(Len(hosts), Len(hosts))
            /\ progress' = progress
            /\ Len(Val(df')) = Len(hosts)]_vars

\* run_checks has returned from a pool of one worker that served two hosts
C13_Witness ==
    /\ pc = "returned"
    /\ last.probed
    /\ workers = 1
    /\ Len(Rows) = 2
    /\ LastProgress = Fraction(2, 2)

\* future i of the open pool is in state st
FutureIs(i, st) == pool_open /\ i \in DOMAIN futures /\ futures[i].state = st

(* C14: under fair scheduling of the workers and of the collecting thread, *)
(* and with every probe returning or raising, every queued target is       *)
(* eventually taken by a worker, every running probe eventually finishes,  *)
(* and every batch that was started eventually returns with one outcome    *)
(* per host, for one worker as for several.                                *)
C14_BatchEventuallyReturns ==
    /\ \A i \in 1..MaxLines :
          /\ FutureIs(i, "queued") ~> FutureIs(i, "running")
          /\ FutureIs(i, "running") ~> FutureIs(i, "finished")
          /\ FutureIs(i, "finished") ~> FutureIs(i, "yielded")
    /\ (pc = "submit") ~> (pc = "pool" /\ Len(futures) = Len(hosts))
    /\ (pc = "pool") ~> (pc = "returned" /\ Len(Rows) = Len(hosts))

\* one worker has two targets to serve: the second waits while the first runs
C14_Witness ==
    /\ workers = 1
    /\ FutureIs(1, "running")
    /\ FutureIs(2, "queued")

\* how far a future has come
StateRank(st) ==
    CASE st = "queued" -> 0
      [] st = "running" -> 1
      [] st = "finished" -> 2
      [] st = "yielded" -> 3

(* C15: within one batch every submitted target is probed once, by one     *)
(* worker.  A future is run by a worker thread exactly while it is         *)
(* running; no two running futures have the same worker, so a worker runs  *)
(* one probe to completion before it takes another; a future only moves    *)
(* forward, queued, running, finished, yielded, one step at a time, so it  *)
(* is started once and a failed probe is not queued or run again; its      *)
(* outcome exists from the moment the probe finished and never changes.    *)
C15_ProbedOnceByOneWorker ==
    /\ [](pool_open =>
            /\ \A i \in DOMAIN futures :
                  /\ futures[i].state = "running" <=> futures[i].worker # None
                  /\ futures[i].worker # None =>
                        Val(futures[i].worker) \in 1..workers
                  /\ futures[i].result # None <=>
                        futures[i].state \in {"finished", "yielded"}
            /\ \A i, j \in running(futures) :
                  i # j => futures[i].worker # futures[j].worker)
    /\ [][(pool_open /\ pool_open') =>
            \A i \in DOMAIN futures :
                /\ StateRank(futures'[i].state) - StateRank(futures[i].state)
                      \in {0, 1}
                /\ futures'[i].host = futures[i].host
                /\ futures[i].result # None =>
                      futures'[i].result = futures[i].result
                /\ (futures[i].state = "running" /\ futures'[i].state = "running")
                      => futures'[i].worker = futures[i].worker]_vars

\* the only worker of the pool runs the second probe after its first probe
\* has failed
C15_Witness ==
    /\ pc = "pool"
    /\ workers = 1
    /\ Len(futures) = 2
    /\ futures[1].result # None
    /\ Val(futures[1].result).status = "ERROR"
    /\ futures[2].state = "running"
    /\ futures[2].worker = Some(1)

\* the arguments of the call of run_checks the state is in or has left
Args == <<hosts, port, warn_days, workers>>

\* this step is a call of run_checks
CallStep == runs' = runs + 1 /\ pc' # "error"

(* C16: a call of run_checks whose four arguments are those of an earlier  *)
(* completed call is answered from the memo in the same step, with that    *)
(* call's DataFrame and without a pool or a future, whatever the clock and *)
(* the endpoints have become; a call whose arguments differ from those of  *)
(* every completed call in any of the four opens a pool, which submits    *)
(* one future per host.  The memo grows by the arguments and the DataFrame of  *)
(* each call that ran the probes, and nothing else changes it.             *)
C16_SameArgumentsFromMemo ==
    /\ [][CallStep =>
            IF Args' \in DOMAIN memo
            THEN /\ pc' = "returned"
                 /\ futures' = <<>>
                 /\ df' = Some(memo[Args'])
                 /\ ~last'.probed
                 /\ memo' = memo
            ELSE /\ pc' = "submit"
                 /\ futures' = <<>>
                 /\ df' = None
                 /\ memo' = memo]_vars
    /\ [](pc = "pool" => HostsOf(futures) = hosts)
    /\ [][memo' # memo =>
            /\ pc = "pool" /\ pc' = "returned"
            /\ DOMAIN memo' = DOMAIN memo \cup {Args}
            /\ memo'[Args] = Val(df')
            /\ \A a \in DOMAIN memo : memo'[a] = memo[a]]_vars
    /\ [](pc = "rendered" /\ ~last.probed /\ prev.rows # None
            /\ prev.key = last.key
              => last.rows = prev.rows)

\* the second of two equal submissions was answered from the memo after
\* the clock had moved and the host had begun to refuse connections: its
\* row still shows the certificate
C16_Witness ==
    /\ pc = "rendered"
    /\ ~last.probed
    /\ prev.probed
    /\ prev.key = last.key
    /\ now # prev.env[1]
    /\ \E i \in DOMAIN Rows :
          Rows[i].status # "ERROR" /\ endpoint[Rows[i].host] = Refused

(* C17: the outcome a probe returns has a days_left exactly when the probe *)
(* succeeded, and then days_left is the floor of (expiry - now) / one day, *)
(* now being the clock reading of the step in which the probe returns:     *)
(* rounded toward negative infinity for negative differences too.          *)
C17_DaysLeftIsFloor ==
    [][(pool_open /\ pool_open') =>
        \A i \in DOMAIN futures :
            (futures[i].result = None /\ futures'[i].result # None) =>
                LET r == Val(futures'[i].result)
                IN  /\ r.days_left # None <=> r.status # "ERROR"
                    /\ r.days_left # None <=> r.expiry # None
                    /\ r.days_left # None =>
                          Val(r.days_left) = FloorDays(Val(r.expiry), now)]_vars

\* probed half a second after Clock0: a certificate that expired at Clock0
\* has days_left -1, and one that expires warn_days days and 23:59:59.5
\* hours ahead has days_left warn_days
C17_Witness ==
    /\ pc = "pool"
    /\ now = Clock1
    /\ Len(futures) = 2
    /\ futures[1].result # None
    /\ futures[2].result # None
    /\ LET r1 == Val(futures[1].result)
           r2 == Val(futures[2].result)
       IN  /\ r1.expiry = Some(Clock0)
           /\ r1.days_left = Some(-1)
           /\ r2.days_left = Some(warn_days)
           /\ r2.expiry # None
           /\ toordinal(Val(r2.expiry)) - toordinal(now) = warn_days + 1

\* the count the histogram shows for a label
BucketCount(label) ==
    LET k == CHOOSE j \in DOMAIN Val(bucket_counts) :
                 Val(bucket_counts)[j].label = label
    IN  Val(bucket_counts)[k].count

(* C18: in the rendered page every ERROR row has no days_left and lies in  *)
(* the 'Expired' bucket, and the Expired count is the number of ERROR rows *)
(* plus the number of rows with a days_left <= 0.                          *)
C18_ErrorsCountedExpired ==
    pc = "rendered" =>
        /\ \A i \in DOMAIN Rows :
              Rows[i].status = "ERROR" =>
                  /\ Rows[i].days_left = None
                  /\ Rows[i].days_left_bucket = Some("Expired")
        /\ BucketCount("Expired") =
              Cardinality({i \in DOMAIN Rows : Rows[i].status = "ERROR"})
              + Cardinality({i \in DOMAIN Rows :
                    Rows[i].days_left # None /\ Val(Rows[i].days_left) <= 0})

\* a failed probe and a certificate on its last day, both shown as Expired
C18_Witness ==
    /\ pc = "rendered"
    /\ BucketCount("Expired") = 2
    /\ \E i, j \in DOMAIN Rows :
          /\ Rows[i].status = "ERROR"
          /\ Rows[j].days_left = Some(0)

(* C19: every outcome's status is one of OK, WARNING, ERROR, and the       *)
(* summary metrics partition the rows: ok + warnings + errors = total =    *)
(* the number of rows = the number of hosts checked.                       *)
C19_SummaryPartition ==
    /\ \A r \in Outcomes \cup {Rows[i] : i \in DOMAIN Rows} :
          r.status \in {"OK", "WARNING", "ERROR"}
    /\ pc = "rendered" =>
          LET m == Val(summary)
          IN  /\ m.total = Len(Rows)
              /\ m.total = Len(hosts)
              /\ m.ok + m.warnings + m.errors = m.total

\* a summary with an expired certificate counted as a warning beside an
\* error
C19_Witness ==
    /\ pc = "rendered"
    /\ summary = Some([total |-> 2, ok |-> 0, warnings |-> 1, errors |-> 1])
    /\ \E i \in DOMAIN Rows :
          Rows[i].days_left # None /\ Val(Rows[i].days_left) < 0

====
